---- MODULE Spec2Model ----
(***************************************************************************)
(* gdb_numpy: mapping a C/C++ vector/array variable of the inferior into   *)
(* a numpy array (gdb_numpy.to_array) through the dereference classes of   *)
(* deref.py (DeRefPtr, DeRefArr, DeRefVec).                                *)
(*                                                                         *)
(* A C type is a sequence of layers, outermost first, over a base type     *)
(* name.  Layer kinds: "P" pointer, "A" array with a declared dimension n, *)
(* "U" array with no declared dimension ("[]"), "V" std::vector.  The code *)
(* never sees this structure: it sees str(gdb.Type), the C declarator, and *)
(* classifies it with regular expressions.  The type name is modelled as   *)
(* the sequence of the declarator's tokens and the regular expressions as  *)
(* predicates on that sequence.                                            *)
(***************************************************************************)
EXTENDS Integers, Sequences, FiniteSets, TLC

\* ------------------------------------------------------------------ bounds
MaxDepth == 3
MaxDim == 2
MaxShapeLen == 2

\* ------------------------------------------------ types and their names
\* The sizes of the model: array dimensions, vector lengths and the entries
\* of shape are the smallest and the largest size.
Dims == {1, MaxDim}

Layer(k, n) == [k |-> k, n |-> n]
Tok(t, n) == [t |-> t, n |-> n]

LayerKinds ==
    {Layer("P", 0), Layer("V", 0), Layer("U", 0)}
        \cup {Layer("A", n) : n \in Dims}

IsArrLayer(l) == l.k \in {"A", "U"}

\* The layer sequences a C/C++ declaration can have: no array of unsized
\* arrays and no vector of arrays.
ValidLayers(ls) ==
    \A i \in 1..(Len(ls) - 1) :
        /\ ~(IsArrLayer(ls[i]) /\ ls[i + 1].k = "U")
        /\ ~(ls[i].k = "V" /\ IsArrLayer(ls[i + 1]))

LayerSeqs ==
    UNION {[1..d -> LayerKinds] : d \in 0..MaxDepth}

\* Base type names of the inspected variables: one of the names _type_list
\* knows and one it does not.
BaseNames == {"char", "long"}

Types ==
    {[layers |-> ls, base |-> b] : ls \in {s \in LayerSeqs : ValidLayers(s)},
                                   b \in BaseNames}

RECURSIVE Prefix(_, _)
\* The declarator's part left of the name: stars, and an opening
\* parenthesis where a pointer to an array needs one.
Prefix(ls, passedPtr) ==
    IF ls = <<>> THEN <<>>
    ELSE IF ls[1].k = "P" THEN Prefix(Tail(ls), TRUE) \o <<Tok("*", 0)>>
    ELSE Prefix(Tail(ls), FALSE) \o (IF passedPtr THEN <<Tok("(", 0)>> ELSE <<>>)

RECURSIVE Suffix(_, _)
\* The declarator's part right of the name: the bracketed dimensions.
Suffix(ls, passedPtr) ==
    IF ls = <<>> THEN <<>>
    ELSE IF ls[1].k = "P" THEN Suffix(Tail(ls), TRUE)
    ELSE (IF passedPtr THEN <<Tok(")", 0)>> ELSE <<>>)
             \o <<IF ls[1].k = "U" THEN Tok("[]", 0) ELSE Tok("[n]", ls[1].n)>>
             \o Suffix(Tail(ls), FALSE)

\* Position of the outermost vector layer, 0 when there is none.
FirstVec(ls) ==
    IF \E i \in 1..Len(ls) : ls[i].k = "V"
    THEN CHOOSE i \in 1..Len(ls) :
             ls[i].k = "V" /\ \A j \in 1..(i - 1) : ls[j].k # "V"
    ELSE 0

RECURSIVE TypeName(_)
\* str(val.type.strip_typedefs().unqualified()): "int", "int [2][3]",
\* "int (*)[3]", "int *[3]", "std::vector<int> *", ...
TypeName(ty) ==
    LET ls == ty.layers
        v == FirstVec(ls)
        outer == IF v = 0 THEN ls ELSE SubSeq(ls, 1, v - 1)
        head == IF v = 0 THEN <<Tok(ty.base, 0)>>
                ELSE <<Tok("std::vector<", 0)>>
                         \o TypeName([layers |-> SubSeq(ls, v + 1, Len(ls)),
                                      base |-> ty.base])
                         \o <<Tok(">", 0)>>
    IN  IF outer = <<>> THEN head
        ELSE head \o <<Tok(" ", 0)>> \o Prefix(outer, FALSE) \o Suffix(outer, FALSE)

\* _get_type(val)
get_type(val) == TypeName(val.ty)

\* ------------------------------------------------- the regular expressions
IsBracket(tok) == tok.t \in {"[n]", "[]"}

\* Number of bracketed groups the name ends with.
TrailingBrackets(name) ==
    LET S == {r \in 0..Len(name) :
                 \A j \in 1..r : IsBracket(name[Len(name) - j + 1])}
    IN  CHOOSE r \in S : \A q \in S : q <= r

\* DeRefPtr.pattern: '\*$|\*\)(?:\[\d*\])+$'
PtrPattern(name) ==
    LET r == TrailingBrackets(name)
        n == Len(name)
    IN  \/ n >= 1 /\ name[n].t = "*"
        \/ /\ r >= 1
           /\ n - r >= 2
           /\ name[n - r].t = ")"
           /\ name[n - r - 1].t = "*"

\* DeRefArr.pattern: '(?:\[\d*\])+$'
ArrPattern(name) == TrailingBrackets(name) >= 1

\* DeRefVec.pattern: '^(std::vector)'
VecPattern(name) == Len(name) >= 1 /\ name[1].t = "std::vector<"

\* re.search('(?:\[\])+', arr_type)
EmptyDimPattern(name) == \E i \in 1..Len(name) : name[i].t = "[]"

\* int(match.group()[1:-1].split('][')[0]): the first of the trailing groups.
FirstDim(name) == name[Len(name) - TrailingBrackets(name) + 1].n

\* ------------------------------------------------------ gdb.Value access
\* A gdb.Value of the inferior: its type and the indices that lead to it
\* from the inspected variable.
Value(ty, path) == [ty |-> ty, path |-> path]

OuterKind(val) == IF val.ty.layers = <<>> THEN "S" ELSE val.ty.layers[1].k

\* val[i] is defined on pointers and arrays.
CanIndex(val) == OuterKind(val) \in {"P", "A", "U"}

\* val[i]
Index(val, i) ==
    Value([layers |-> Tail(val.ty.layers), base |-> val.ty.base],
          Append(val.path, i))

RECURSIVE Follow(_)
\* val['field'] on a pointer or an array: gdb follows pointers, and arrays
\* to their first element, until it reaches a value that is neither.
Follow(val) == IF CanIndex(val) THEN Follow(Index(val, 0)) ELSE val

\* val['_M_impl'] is defined when gdb reaches a struct.
CanField(val) == OuterKind(Follow(val)) = "V"

\* val['_M_impl']['_M_start'][i]
VecElem(val, i) == Index(Follow(val), i)

\* The inferior's memory: the scalar stored where the indices `path` lead,
\* within the range of its C type.
PathBase == MaxDim + 1

RECURSIVE PathCode(_)
PathCode(path) ==
    IF path = <<>> THEN 1
    ELSE PathCode(SubSeq(path, 1, Len(path) - 1)) * PathBase + path[Len(path)]

\* An integer in `bits` bits.  The scalars of this model stay far below
\* 2^31, so the 32-bit types keep them as they are.
Wrap(v, bits, signed) ==
    IF bits >= 32 THEN v
    ELSE LET m == 2 ^ bits
             u == v % m
         IN  IF signed /\ u >= m \div 2 THEN u - m ELSE u

CRange(base, v) ==
    CASE base = "char" -> Wrap(v, 8, TRUE)
      [] base = "int" -> Wrap(v, 32, TRUE)
      [] OTHER -> v

Stored(val) == CRange(val.ty.base, PathCode(val.path))

\* ------------------------------------------------------------ gdb_numpy
\* _type_list
type_list ==
    [n \in {"unsigned char", "unsigned int", "char", "short", "int", "float",
            "double"} |->
        CASE n = "unsigned char" -> "uint8"
          [] n = "unsigned int" -> "uint32"
          [] n = "char" -> "int8"
          [] n = "short" -> "int16"
          [] n = "int" -> "int32"
          [] n = "float" -> "float32"
          [] n = "double" -> "float64"]

\* _type_list[dtype] raises KeyError unless dtype is one of its keys.
InTypeList(name) == Len(name) = 1 /\ name[1].t \in DOMAIN type_list

\* _type_list[dtype](val): the numpy scalar of a C scalar.
NpCast(np, v) ==
    CASE np = "uint8" -> Wrap(v, 8, FALSE)
      [] np = "uint32" -> Wrap(v, 32, FALSE)
      [] np = "int8" -> Wrap(v, 8, TRUE)
      [] np = "int16" -> Wrap(v, 16, TRUE)
      [] np = "int32" -> Wrap(v, 32, TRUE)
      [] OTHER -> v

\* ----------------------------------------------------------------- deref
\* The shape argument: None, or a tuple of positive integers.
NoShape == [given |-> FALSE, dims |-> <<>>]
ShapeOf(dims) == [given |-> TRUE, dims |-> dims]
Shapes ==
    {NoShape} \cup
    {ShapeOf(d) : d \in UNION {[1..n -> Dims] : n \in 0..MaxShapeLen}}

\* Python's truth value of shape: neither None nor empty.
Truthy(shape) == shape.given /\ Len(shape.dims) > 0

\* shape_ind: None, or an offset into shape.
NoneInd == [none |-> TRUE, i |-> 0]
Ind(i) == [none |-> FALSE, i |-> i]

Failed(e) == [err |-> e, val |-> Value([layers |-> <<>>, base |-> ""], <<>>),
              shape_ind |-> NoneInd, bounds |-> <<>>]

\* DeRefBase._get_range_from_shape
get_range_from_shape(val, shape_ind, shape, arg_no) ==
    IF shape_ind.none THEN Failed("TypeError")
    ELSE LET end_ind == shape_ind.i + arg_no
         IN  IF end_ind > Len(shape.dims) THEN Failed("IndexError")
             ELSE [err |-> "", val |-> val, shape_ind |-> Ind(end_ind),
                   bounds |-> SubSeq(shape.dims, shape_ind.i + 1, end_ind)]

\* DeRefPtr.__init__ and DeRefPtr._update
DeRefPtr(val, shape_ind, shape) ==
    IF ~shape.given THEN Failed("ValueError")
    ELSE IF ~CanIndex(val) THEN Failed("gdb.error")
    ELSE get_range_from_shape(Index(val, 0), shape_ind, shape, 1)

\* DeRefArr as it would be if an array took its bound from the shape, as a
\* pointer does, whenever a shape is there.
DeRefArr_FromShape(val, shape_ind, shape) ==
    LET arr_type == TypeName(val.ty)
    IN  IF EmptyDimPattern(arr_type) THEN Failed("gdb.error")
        ELSE IF ~CanIndex(val) THEN Failed("gdb.error")
        ELSE IF ~shape_ind.none
             THEN get_range_from_shape(Index(val, 0), shape_ind, shape, 1)
             ELSE [err |-> "", val |-> Index(val, 0), shape_ind |-> shape_ind,
                   bounds |-> <<FirstDim(arr_type)>>]

\* DeRefArr as it would be without the test for an empty dimension group:
\* the group's number is taken as it stands.
DeRefArr_NoDimCheck(val, shape_ind, shape) ==
    LET arr_type == TypeName(val.ty)
    IN  IF ~CanIndex(val) THEN Failed("gdb.error")
        ELSE [err |-> "", val |-> Index(val, 0), shape_ind |-> shape_ind,
              bounds |-> <<FirstDim(arr_type)>>]

\* DeRefArr.__init__ and DeRefArr._update
DeRefArr(val, shape_ind, shape) ==
    LET arr_type == TypeName(val.ty)
    IN  IF EmptyDimPattern(arr_type) THEN Failed("gdb.error")
        ELSE IF ~CanIndex(val) THEN Failed("gdb.error")
        ELSE [err |-> "", val |-> Index(val, 0), shape_ind |-> shape_ind,
              bounds |-> <<FirstDim(arr_type)>>]

\* DeRefVec.__init__ and DeRefVec._update; len is _M_finish - _M_start.
DeRefVec(val, shape_ind, shape, len) ==
    IF ~CanField(val) THEN Failed("gdb.error")
    ELSE [err |-> "", val |-> VecElem(val, 0), shape_ind |-> shape_ind,
          bounds |-> <<len>>]

\* deref as it would be if it took the first element whatever the index.
deref_First(cls, val, indices) ==
    IF cls = "DeRefVec"
    THEN IF CanField(val) THEN [ok |-> TRUE, val |-> VecElem(val, 0)]
         ELSE [ok |-> FALSE, val |-> val]
    ELSE IF CanIndex(val) THEN [ok |-> TRUE, val |-> Index(val, 0)]
         ELSE [ok |-> FALSE, val |-> val]

\* The deref methods of the three classes: [ok, val].
deref(cls, val, indices) ==
    IF cls = "DeRefVec"
    THEN IF CanField(val) THEN [ok |-> TRUE, val |-> VecElem(val, indices[1])]
         ELSE [ok |-> FALSE, val |-> val]
    ELSE IF CanIndex(val) THEN [ok |-> TRUE, val |-> Index(val, indices[1])]
         ELSE [ok |-> FALSE, val |-> val]

\* itertools.product(*[range(b) for b in bounds]), in its order.
RECURSIVE RangeProd(_, _, _)
RangeProd(i, b, rest) ==
    IF i >= b THEN <<>>
    ELSE [k \in 1..Len(rest) |-> <<i>> \o rest[k]] \o RangeProd(i + 1, b, rest)

RECURSIVE Product(_)
Product(bnds) ==
    IF bnds = <<>> THEN << <<>> >>
    ELSE RangeProd(0, bnds[1], Product(Tail(bnds)))

IndexSet(bnds) ==
    LET p == Product(bnds)
    IN  {p[k] : k \in 1..Len(p)}

RECURSIVE Replay(_, _, _, _, _)
\* The inner loop of to_array: each function of the chain takes the next
\* arg_n entries of the index.
Replay(v, funcs, argn, index, start_ind) ==
    IF funcs = <<>> \/ argn = <<>> THEN [ok |-> TRUE, val |-> v]
    ELSE LET end_ind == start_ind + argn[1]
             r == deref(funcs[1], v, SubSeq(index, start_ind + 1, end_ind))
         IN  IF ~r.ok THEN r
             ELSE Replay(r.val, Tail(funcs), Tail(argn), index, end_ind)

\* ------------------------------------------------------------------ state
VARIABLES
    var,        \* type of the inspected variable (gdb.parse_and_eval(var))
    vecLen,     \* _M_finish - _M_start of the inferior's vectors
    shape,      \* the shape argument of the running call
    pc,         \* position of the running call
    val, arr_type, old_type, shape_ind, deref_func, arg_no, bounds,
                \* the locals of _get_deref_funcs
    iters,      \* outer iterations of _get_deref_funcs so far
    notice,     \* "Not all of the bounds are used." was printed
    err,        \* the exception that ended the call, "" when none
    narray,     \* the numpy array of to_array: [alloc, cells]
    writes,     \* number of assignments narray[index] = ... per index
    indices,    \* what is left of the iterator `indices`
    prev        \* outcome of the previous call on the same variable

vars == <<var, vecLen, shape, pc, val, arr_type, old_type, shape_ind,
          deref_func, arg_no, bounds, iters, notice, err, narray, writes,
          indices, prev>>

NoArray == [alloc |-> FALSE, cells |-> [ix \in {} |-> 0]]
NoFunc == [ix \in {} |-> 0]
NoName == <<>>
NoPrev == [valid |-> FALSE, err |-> "", bounds |-> <<>>, cells |-> NoFunc]

Root == Value(var, <<>>)

Init ==
    /\ var \in Types
    /\ vecLen \in Dims
    /\ shape = NoShape
    /\ pc = "idle"
    /\ val = Value([layers |-> <<>>, base |-> ""], <<>>)
    /\ arr_type = NoName
    /\ old_type = NoName
    /\ shape_ind = NoneInd
    /\ deref_func = <<>>
    /\ arg_no = <<>>
    /\ bounds = <<>>
    /\ iters = 0
    /\ notice = FALSE
    /\ err = ""
    /\ narray = NoArray
    /\ writes = NoFunc
    /\ indices = <<>>
    /\ prev = NoPrev

\* What a finished call leaves its caller.
Outcome ==
    [valid |-> TRUE, err |-> err,
     bounds |-> IF pc = "done" THEN bounds ELSE <<>>,
     cells |-> IF pc = "done" THEN narray.cells ELSE NoFunc]

\* to_array(var, shape) up to the first loop test of _get_deref_funcs.
Enter(sh) ==
    /\ shape' = sh
    /\ val' = Root
    /\ arr_type' = get_type(Root)
    /\ old_type' = NoName
    /\ shape_ind' = IF Truthy(sh) THEN Ind(0) ELSE NoneInd
    /\ deref_func' = <<>>
    /\ arg_no' = <<>>
    /\ bounds' = <<>>
    /\ iters' = 0
    /\ notice' = FALSE
    /\ err' = ""
    /\ narray' = NoArray
    /\ writes' = NoFunc
    /\ indices' = <<>>
    /\ pc' = "outer"
    /\ UNCHANGED <<var, vecLen>>

\* The first call of to_array on the variable.
Call(sh) ==
    /\ pc = "idle"
    /\ Enter(sh)
    /\ UNCHANGED prev

\* A further call of to_array on the same variable of the stopped inferior,
\* with another shape; prev keeps what the call before it gave.
Recall(sh) ==
    /\ pc \in {"done", "failed"}
    /\ sh # shape
    /\ Enter(sh)
    /\ prev' = Outcome

\* An exception leaves the call.
Raise(e) ==
    /\ pc' = "failed"
    /\ err' = e

\* The test of the outer while loop and, when it holds, the test of the
\* inner one (the same condition) and the first two lines of its body.
LoopTest ==
    /\ pc = "outer"
    /\ IF arr_type # old_type
       THEN /\ arr_type' = get_type(val)
            /\ old_type' = get_type(val)
            /\ iters' = iters + 1
            /\ pc' = "ptr"
       ELSE /\ pc' = "exit"
            /\ UNCHANGED <<arr_type, old_type, iters>>
    /\ UNCHANGED <<var, vecLen, shape, val, shape_ind, deref_func, arg_no,
                   bounds, notice, err, narray, writes, indices, prev>>

\* Peel as it would be with arg_no.append(len(bounds)): the length of the
\* whole list instead of the layer's own.
Peel_ArityOfAll(cls, d, next) ==
    IF d.err # ""
    THEN /\ pc' = "failed"
         /\ err' = d.err
         /\ UNCHANGED <<val, shape_ind, deref_func, bounds, arg_no>>
    ELSE /\ val' = d.val
         /\ shape_ind' = d.shape_ind
         /\ deref_func' = Append(deref_func, cls)
         /\ bounds' = bounds \o d.bounds
         /\ arg_no' = Append(arg_no, Len(bounds \o d.bounds))
         /\ pc' = next
         /\ err' = err

\* The body of the for loop of _deref for one class: d is what the
\* constructor of the class left in the object.
Peel(cls, d, next) ==
    IF d.err # ""
    THEN /\ Raise(d.err)
         /\ UNCHANGED <<val, shape_ind, deref_func, bounds, arg_no>>
    ELSE /\ val' = d.val
         /\ shape_ind' = d.shape_ind
         /\ deref_func' = Append(deref_func, cls)
         /\ bounds' = bounds \o d.bounds
         /\ arg_no' = Append(arg_no, Len(d.bounds))
         /\ pc' = next
         /\ err' = err

Skip(next) ==
    /\ pc' = next
    /\ UNCHANGED <<val, shape_ind, deref_func, bounds, arg_no, err>>

\* _deref(_ptr_list, ...), ref_type = DeRefPtr.
TryPtr ==
    /\ pc = "ptr"
    /\ IF PtrPattern(get_type(val))
       THEN Peel("DeRefPtr", DeRefPtr(val, shape_ind, shape), "arr")
       ELSE Skip("arr")
    /\ UNCHANGED <<var, vecLen, shape, arr_type, old_type, iters, notice,
                   narray, writes, indices, prev>>

\* Where the inner while loop goes after its body: arr_type and old_type
\* are the ones its body set.
AfterInner == IF arr_type # old_type THEN "ptr" ELSE "vec"

\* _deref(_ptr_list, ...), ref_type = DeRefArr, and the inner loop's test.
TryArr ==
    /\ pc = "arr"
    /\ IF ArrPattern(get_type(val))
       THEN Peel("DeRefArr", DeRefArr(val, shape_ind, shape), AfterInner)
       ELSE Skip(AfterInner)
    /\ UNCHANGED <<var, vecLen, shape, arr_type, old_type, iters, notice,
                   narray, writes, indices, prev>>

\* TryVec as it would be without the line arr_type = _get_type(val) that
\* follows the call.
TryVec_StaleType ==
    /\ pc = "vec"
    /\ IF VecPattern(get_type(val))
       THEN Peel("DeRefVec", DeRefVec(val, shape_ind, shape, vecLen), "outer")
       ELSE Skip("outer")
    /\ UNCHANGED <<var, vecLen, shape, arr_type, old_type, iters, notice,
                   narray, writes, indices, prev>>

\* _deref(_container_list, ...) and arr_type = _get_type(val).
TryVec ==
    /\ pc = "vec"
    /\ IF VecPattern(get_type(val))
       THEN Peel("DeRefVec", DeRefVec(val, shape_ind, shape, vecLen), "outer")
       ELSE Skip("outer")
    /\ arr_type' = IF pc' = "failed" THEN arr_type ELSE get_type(val')
    /\ UNCHANGED <<var, vecLen, shape, old_type, iters, notice, narray,
                   writes, indices, prev>>

\* if shape_ind: if shape_ind != len(shape): print(...)
SurplusNotice(si, sh) == ~si.none /\ si.i # 0 /\ si.i # Len(sh.dims)

\* The end of _get_deref_funcs.
Finish ==
    /\ pc = "exit"
    /\ notice' = SurplusNotice(shape_ind, shape)
    /\ pc' = "alloc"
    /\ UNCHANGED <<var, vecLen, shape, val, arr_type, old_type, shape_ind,
                   deref_func, arg_no, bounds, iters, err, narray, writes,
                   indices, prev>>

\* Alloc as it would be if the array were made before its dtype is looked
\* up in _type_list.
Alloc_ZerosFirst ==
    /\ pc = "alloc"
    /\ narray' = [alloc |-> TRUE, cells |-> [ix \in IndexSet(bounds) |-> 0]]
    /\ writes' = [ix \in IndexSet(bounds) |-> 0]
    /\ indices' = Product(bounds)
    /\ IF InTypeList(arr_type)
       THEN pc' = "fill" /\ err' = err
       ELSE pc' = "failed" /\ err' = "KeyError"
    /\ UNCHANGED <<var, vecLen, shape, val, arr_type, old_type, shape_ind,
                   deref_func, arg_no, bounds, iters, notice, prev>>

\* ranges, indices and narray = np.zeros(bounds, dtype = _type_list[dtype]).
Alloc ==
    /\ pc = "alloc"
    /\ IF InTypeList(arr_type)
       THEN /\ narray' = [alloc |-> TRUE,
                          cells |-> [ix \in IndexSet(bounds) |-> 0]]
            /\ writes' = [ix \in IndexSet(bounds) |-> 0]
            /\ indices' = Product(bounds)
            /\ pc' = "fill"
            /\ err' = err
       ELSE /\ Raise("KeyError")
            /\ UNCHANGED <<narray, writes, indices>>
    /\ UNCHANGED <<var, vecLen, shape, val, arr_type, old_type, shape_ind,
                   deref_func, arg_no, bounds, iters, notice, prev>>

\* One turn of `for index in indices`.
WriteCell ==
    /\ pc = "fill"
    /\ indices # <<>>
    /\ LET index == Head(indices)
           r == Replay(Root, deref_func, arg_no, index, 0)
       IN  IF r.ok /\ r.val.ty.layers = <<>>
           THEN /\ narray' = [narray EXCEPT !.cells[index] =
                                 NpCast(type_list[arr_type[1].t], Stored(r.val))]
                /\ writes' = [writes EXCEPT ![index] = @ + 1]
                /\ indices' = Tail(indices)
                /\ val' = r.val
                /\ pc' = pc
                /\ err' = err
           ELSE /\ Raise(IF r.ok THEN "TypeError" ELSE "gdb.error")
                /\ UNCHANGED <<narray, writes, indices, val>>
    /\ UNCHANGED <<var, vecLen, shape, arr_type, old_type, shape_ind,
                   deref_func, arg_no, bounds, iters, notice, prev>>

\* return narray
Return ==
    /\ pc = "fill"
    /\ indices = <<>>
    /\ pc' = "done"
    /\ UNCHANGED <<var, vecLen, shape, val, arr_type, old_type, shape_ind,
                   deref_func, arg_no, bounds, iters, notice, err, narray,
                   writes, indices, prev>>

\* The positions of a call that has begun and not ended: each is the guard
\* of a step (at "fill", of WriteCell or of Return).
StepPositions == {"outer", "ptr", "arr", "vec", "exit", "alloc", "fill"}

\* The steps of a call that has begun.
Step ==
    \/ LoopTest
    \/ TryPtr
    \/ TryArr
    \/ TryVec
    \/ Finish
    \/ Alloc
    \/ WriteCell
    \/ Return

Next ==
    \/ \E sh \in Shapes : Call(sh)
    \/ Step

Spec == Init /\ [][Next]_vars

\* A debugging session on a variable whose type has no pointer layer:
\* to_array is called again and again, with any shape.
PointerFree(ty) == \A i \in 1..Len(ty.layers) : ty.layers[i].k # "P"

InitSession == Init /\ PointerFree(var)

NextSession ==
    \/ Next
    \/ \E sh \in Shapes : Recall(sh)

SpecSession == InitSession /\ [][NextSession]_vars

\* ---------------------------------------------------------------- claims
PtrCount(ty) == Cardinality({i \in 1..Len(ty.layers) : ty.layers[i].k = "P"})

\* Pointers and arrays with a declared dimension only.
PtrArrOnly(ty) == \A i \in 1..Len(ty.layers) : ty.layers[i].k \in {"P", "A"}

Whitelisted(ty) == ty.base \in DOMAIN type_list

RECURSIVE LayerBounds(_, _, _)
\* One bound per layer, outermost first: the declared dimension of an array,
\* the next entry of the shape for a pointer, the length for a vector.
LayerBounds(ls, dims, len) ==
    IF ls = <<>> THEN <<>>
    ELSE IF ls[1].k = "P"
         THEN <<dims[1]>> \o LayerBounds(Tail(ls), Tail(dims), len)
         ELSE <<IF ls[1].k = "V" THEN len ELSE ls[1].n>>
                  \o LayerBounds(Tail(ls), dims, len)

RECURSIVE Sum(_)
Sum(seq) == IF seq = <<>> THEN 0 ELSE seq[1] + Sum(Tail(seq))

Composed == pc \in {"exit", "alloc", "fill", "done"}
Ended == pc \in {"done", "failed"}
Running == pc # "idle"

\* C1: for a type of pointers and sized arrays only, over a whitelisted
\* scalar, and a shape with one entry per pointer, the composition succeeds
\* and bounds has one entry per layer, outermost first: the declared
\* dimension of an array, the next shape entry for a pointer.
C1_BoundsFollowLayers ==
    (Running /\ PtrArrOnly(var) /\ Whitelisted(var) /\ shape.given
        /\ Len(shape.dims) = PtrCount(var))
    => /\ pc # "failed"
       /\ Composed => bounds = LayerBounds(var.layers, shape.dims, vecLen)

\* C2: a vector layer is constructed only on a value whose type name matches
\* neither the pointer nor the array pattern, and an array[m] of pointers to
\* vectors of length L with shape (k,) composes to bounds (m, k, L).
C2_PointersPeeledBeforeContainer ==
    /\ (pc = "vec" /\ VecPattern(get_type(val)))
           => ~PtrPattern(get_type(val)) /\ ~ArrPattern(get_type(val))
    /\ (Composed /\ Len(var.layers) = 3 /\ var.layers[1].k = "A"
            /\ var.layers[2].k = "P" /\ var.layers[3].k = "V"
            /\ shape.given /\ Len(shape.dims) = 1)
           => bounds = <<var.layers[1].n, shape.dims[1], vecLen>>

\* C3: after a composition that succeeded with a non-empty shape whose
\* entries were not all consumed, the notice has been printed.
C3_SurplusNoticed ==
    (pc \in {"alloc", "fill", "done"} /\ Truthy(shape)
        /\ (shape_ind.none \/ shape_ind.i < Len(shape.dims)))
    => notice

\* C4: with at least one pointer layer and a shape that is absent, empty or
\* shorter than the number of pointer layers, the call ends with IndexError
\* and returns nothing.
C4_InsufficientShapeIsIndexError ==
    (Ended /\ PtrCount(var) >= 1
        /\ (~shape.given \/ Len(shape.dims) < PtrCount(var)))
    => pc = "failed" /\ err = "IndexError"

\* C5: on a type without pointer layers two calls with different shapes end
\* alike: the same exception or none, the same bounds, the same cells; and
\* every bound is a declared dimension of an array layer or the vector's
\* length, never an entry of the shape.
C5_ShapeHasNoEffect ==
    /\ (Ended /\ prev.valid) => Outcome = prev
    /\ (Running /\ PointerFree(var)) =>
           \A k \in 1..Len(bounds) :
               IF k <= Len(deref_func) /\ deref_func[k] = "DeRefVec"
               THEN bounds[k] = vecLen
               ELSE \E i \in 1..Len(var.layers) :
                        var.layers[i].k = "A" /\ var.layers[i].n = bounds[k]

C5_Witness ==
    /\ pc = "done" /\ prev.valid /\ prev.err = ""
    /\ Truthy(shape) /\ Len(bounds) >= 2

\* The array step is about to take its bound from an empty dimension group.
AtUnboundArray ==
    /\ pc = "arr"
    /\ ArrPattern(get_type(val))
    /\ \/ OuterKind(val) = "U"
       \/ get_type(val)[Len(get_type(val))
                            - TrailingBrackets(get_type(val)) + 1].t = "[]"

\* C6: an array layer with an empty dimension group ends the call with
\* gdb.error whatever the shape: no bound is added, the shape offset stays,
\* nothing is allocated; and no composition gets past such a layer.
C6_UnboundArrayFails ==
    /\ [](OuterKind(val) = "U" => pc \in {"outer", "ptr", "arr", "failed"})
    /\ [][AtUnboundArray =>
             /\ pc' = "failed" /\ err' = "gdb.error"
             /\ bounds' = bounds /\ arg_no' = arg_no
             /\ deref_func' = deref_func
             /\ shape_ind' = shape_ind
             /\ narray' = NoArray]_vars

C6_Witness ==
    /\ pc = "failed" /\ err = "gdb.error" /\ OuterKind(val) = "U"
    /\ Truthy(shape) /\ deref_func = <<"DeRefPtr">> /\ shape_ind.i = 1
    /\ Len(shape.dims) = 2

\* C7: a returned array has exactly the index tuples of the product of
\* bounds, each written once with the cast of the scalar the replay of the
\* chain from the root reaches; when every layer has its own step that is
\* the element at these indices, so an array [m][n] gives shape (m, n) with
\* cell (i, j) = element [i][j].
C7_EveryCellWrittenOnce ==
    pc = "done" =>
        /\ DOMAIN narray.cells = IndexSet(bounds)
        /\ \A index \in IndexSet(bounds) :
              /\ writes[index] = 1
              /\ LET r == Replay(Root, deref_func, arg_no, index, 0)
                 IN  r.ok /\ narray.cells[index]
                                = NpCast(type_list[arr_type[1].t], Stored(r.val))
              /\ (PtrArrOnly(var) /\ Len(shape.dims) >= PtrCount(var)
                     /\ bounds = LayerBounds(var.layers, shape.dims, vecLen))
                    => narray.cells[index]
                           = NpCast(type_list[var.base],
                                    CRange(var.base, PathCode(index)))
        /\ (Len(var.layers) = 2 /\ var.layers[1].k = "A" /\ var.layers[2].k = "A")
              => bounds = <<var.layers[1].n, var.layers[2].n>>

C7_Witness ==
    /\ pc = "done"
    /\ var.layers = <<Layer("A", MaxDim), Layer("A", MaxDim)>>
    /\ narray.cells[<<1, 0>>] # narray.cells[<<0, 1>>]

\* C8: a terminal type name outside _type_list ends the call with KeyError
\* before the array is allocated and before any cell is written; and a call
\* that raised returns no array: a returned array has every cell written.
C8_NoPartialBuffer ==
    /\ pc \in {"fill", "done"} => InTypeList(arr_type)
    /\ (pc = "failed" /\ deref_func # <<>> /\ err = "KeyError")
           => ~narray.alloc /\ writes = NoFunc /\ ~InTypeList(arr_type)
    /\ err = "KeyError" => pc = "failed" /\ ~narray.alloc
    /\ err # "" <=> pc = "failed"
    /\ pc = "done" =>
           /\ narray.alloc /\ indices = <<>>
           /\ \A index \in IndexSet(bounds) : writes[index] >= 1

C8_Witness ==
    /\ err = "KeyError" /\ Len(bounds) >= 2 /\ ~narray.alloc

\* C9: the chain has as many functions as arities, the arities add up to
\* the length of bounds, and after the composition the replay of the chain
\* from the root reaches, for every index tuple of the product of bounds, a
\* value of the type the composition returned.
C9_ChainInvariant ==
    /\ Len(deref_func) = Len(arg_no)
    /\ Sum(arg_no) = Len(bounds)
    /\ pc = "alloc" =>
           \A index \in IndexSet(bounds) :
               LET r == Replay(Root, deref_func, arg_no, index, 0)
               IN  r.ok /\ get_type(r.val) = arr_type

C9_Witness ==
    /\ pc = "alloc"
    /\ deref_func = <<"DeRefPtr", "DeRefArr", "DeRefVec">>
    /\ Cardinality(IndexSet(bounds)) > 1

\* C10: the outer loop of a type of N layers makes at most N + 1
\* iterations and a call that has not ended is where a step can be taken; the
\* loop leaves with a result only after an iteration that left the type as
\* it was, and then the type matches none of the three patterns; a type
\* with no layer takes one iteration and gives an empty chain and empty
\* bounds.
C10_LoopStops ==
    /\ iters <= Len(var.layers) + 1
    /\ pc \in {"idle", "failed", "done"} \cup StepPositions
    /\ Composed =>
           /\ arr_type = old_type
           /\ arr_type = get_type(val)
           /\ ~PtrPattern(arr_type) /\ ~ArrPattern(arr_type)
           /\ ~VecPattern(arr_type)
           /\ iters >= 1
    /\ (Composed /\ var.layers = <<>>) =>
           iters = 1 /\ deref_func = <<>> /\ bounds = <<>>

C10_Witness ==
    /\ pc = "done" /\ Len(var.layers) = 3 /\ iters = 4

====
